---- MODULE Spec2Model ----
(***************************************************************************)
(* Q1.15 quantisation of the Simple-GAN 3x3 parameter tools.               *)
(*                                                                         *)
(*   scripts/convert_params_to_hex.py     float_to_q15_hex, convert_file,  *)
(*                                        main                             *)
(*   parameters/extract_gan_parameters.py convert_to_fixed_point_q15,      *)
(*                                        save_q15_hex, main               *)
(*                                                                         *)
(* A floating-point number is a record [cls, q, u].  cls is "fin", "nan",  *)
(* "inf" or "ninf"; a finite number is (q + u / Micro) * 2^-15 with        *)
(* 0 <= u < Micro, so q counts whole Q1.15 steps (floor) and u millionths  *)
(* of a step.  Every number the two programs compare against (-1.0,        *)
(* 0.999969482421875 = 32767 * 2^-15, 0.999969 = 32766.984192 * 2^-15) is  *)
(* on this grid.  The binary64 nearest 0.999969 is 457 / (2^32 * 10^15)    *)
(* below the decimal, which no comparison or rounding on the grid sees.    *)
(* Multiplying by 32768 = 2^15 is exact in binary floating point.          *)
(***************************************************************************)
EXTENDS Integers, Sequences, FiniteSets

\* Resolution of the fractional part of a Q1.15 step (millionths).
Micro == 1000 * 1000

\* ------------------------------------------------------------------------
\* Bounds of the model
\* ------------------------------------------------------------------------
\* Inputs lie within Spread steps (and Spread millionths) of each anchor.
Spread == 2
\* A parameter file has at most MaxLines lines and MaxTokens tokens in all.
MaxLines == 2
MaxTokens == 3
\* At most MaxMissing of the listed parameter files are absent.
MaxMissing == 2

\* ------------------------------------------------------------------------
\* Program constants
\* ------------------------------------------------------------------------
Q15_SCALE == 32768
Q15_MAX == 32767
Q15_MIN == -32768
TWO_16 == 65536
MASK_16 == 65535
HEX_WIDTH == 4

\* ------------------------------------------------------------------------
\* Floating-point values
\* ------------------------------------------------------------------------
Fin(q, u) == [cls |-> "fin", q |-> q, u |-> u]
NaN == [cls |-> "nan", q |-> 0, u |-> 0]
PosInf == [cls |-> "inf", q |-> 0, u |-> 0]
NegInf == [cls |-> "ninf", q |-> 0, u |-> 0]

\* IEEE-754 a < b: false whenever an operand is NaN.
FltLt(a, b) ==
    /\ a.cls # "nan"
    /\ b.cls # "nan"
    /\ CASE a.cls = "ninf" -> b.cls # "ninf"
         [] a.cls = "inf" -> FALSE
         [] OTHER -> \/ b.cls = "inf"
                     \/ /\ b.cls = "fin"
                        /\ (a.q < b.q \/ (a.q = b.q /\ a.u < b.u))

\* IEEE-754 a > b.
FltGt(a, b) == FltLt(b, a)

\* Python min(a, b): keeps a unless b < a.
PyMin(a, b) == IF FltLt(b, a) THEN b ELSE a

\* Python max(a, b): keeps a unless b > a.
PyMax(a, b) == IF FltGt(b, a) THEN b ELSE a

\* The literals of the two clamps.
PY_CLAMP_LO == Fin(Q15_MIN, 0)                  \* -1.0
PY_CLAMP_HI == Fin(Q15_MAX, 0)                  \* 0.999969482421875
NP_CLIP_LO == Fin(Q15_MIN, 0)                   \* -1.0
NP_CLIP_HI == Fin(Q15_MAX - 1, 984192)          \* 0.999969

\* ------------------------------------------------------------------------
\* float_to_q15_hex (convert_params_to_hex.py)
\* ------------------------------------------------------------------------
\* Faulty variants: arguments of min and max exchanged; upper bound 1.0;
\* min and max exchanged.
ClampMinMaxSwapped(v) == PyMax(PyMin(PY_CLAMP_HI, v), PY_CLAMP_LO)
ClampUpToOne(v) == PyMax(PY_CLAMP_LO, PyMin(v, Fin(Q15_SCALE, 0)))
ClampSwapped(v) == PyMin(PY_CLAMP_LO, PyMax(v, PY_CLAMP_HI))
\* value = max(-1.0, min(value, 0.999969482421875))
Clamp(v) == PyMax(PY_CLAMP_LO, PyMin(v, PY_CLAMP_HI))

\* value * 32768: a finite (q + u/Micro) * 2^-15 becomes ip + fp/Micro;
\* NaN and the infinities are kept.
Times32768(v) == [cls |-> v.cls, ip |-> v.q, fp |-> v.u]

\* Python 3 round(x) of a float: the nearest integer, ties to even;
\* ValueError on NaN, OverflowError on an infinity.
RoundHalfEven(x) ==
    IF 2 * x.fp < Micro THEN x.ip
    ELSE IF 2 * x.fp > Micro THEN x.ip + 1
    ELSE IF x.ip % 2 = 0 THEN x.ip ELSE x.ip + 1

\* Faulty variant: ties away from zero (Python 2 round).
RoundHalfAway(x) ==
    IF 2 * x.fp < Micro THEN x.ip
    ELSE IF 2 * x.fp > Micro THEN x.ip + 1
    ELSE IF x.ip >= 0 THEN x.ip + 1 ELSE x.ip

PyRoundHalfAway(x) ==
    [exc |-> IF x.cls = "nan" THEN "ValueError"
             ELSE IF x.cls = "fin" THEN "none" ELSE "OverflowError",
     int |-> IF x.cls = "fin" THEN RoundHalfAway(x) ELSE 0]

\* int(round(x))
PyRound(x) ==
    [exc |-> IF x.cls = "nan" THEN "ValueError"
             ELSE IF x.cls = "fin" THEN "none" ELSE "OverflowError",
     int |-> IF x.cls = "fin" THEN RoundHalfEven(x) ELSE 0]

\* if q15_val > 32767: 32767 / elif q15_val < -32768: -32768
OverflowGuard(n) ==
    IF n > Q15_MAX THEN Q15_MAX
    ELSE IF n < Q15_MIN THEN Q15_MIN
    ELSE n

\* Faulty variants: no encoding; the magnitude instead of the complement.
TwosNoWrap(n) == n
TwosAbs(n) == IF n < 0 THEN 0 - n ELSE n
\* if q15_val < 0: q15_val = q15_val + 65536
TwosComplement(n) == IF n < 0 THEN n + TWO_16 ELSE n

HexChars == <<"0", "1", "2", "3", "4", "5", "6", "7",
              "8", "9", "A", "B", "C", "D", "E", "F">>

\* The hexadecimal digits of n >= 0, most significant first, no padding.
RECURSIVE HexDigits(_)
HexDigits(n) ==
    IF n < 16 THEN <<HexChars[n + 1]>>
    ELSE Append(HexDigits(n \div 16), HexChars[(n % 16) + 1])

\* s padded on the left with "0" to at least w characters.
RECURSIVE ZeroPad(_, _)
ZeroPad(s, w) == IF Len(s) >= w THEN s ELSE ZeroPad(<<"0">> \o s, w)

\* Faulty variant: format(n, 'X'), no padding.
Format04XNoPad(n) ==
    IF n < 0 THEN <<"-">> \o HexDigits(0 - n) ELSE HexDigits(n)
\* format(n, '04X'): uppercase hexadecimal, zero-padded to width 4, the
\* sign of a negative number counted in the width.
Format04X(n) ==
    IF n < 0 THEN <<"-">> \o ZeroPad(HexDigits(0 - n), HEX_WIDTH - 1)
    ELSE ZeroPad(HexDigits(n), HEX_WIDTH)

\* float_to_q15_hex(value): [exc, hex]; exc is "none" when it returns.
float_to_q15_hex(v) ==
    LET r == PyRound(Times32768(Clamp(v)))
    IN  IF r.exc # "none" THEN [exc |-> r.exc, hex |-> <<>>]
        ELSE [exc |-> "none",
              hex |-> Format04X(TwosComplement(OverflowGuard(r.int)))]

\* ------------------------------------------------------------------------
\* convert_to_fixed_point_q15 / save_q15_hex (extract_gan_parameters.py)
\* ------------------------------------------------------------------------
\* Faulty variant: upper bound 32766/32768.
NpClipTight(v) ==
    IF v.cls = "nan" THEN v
    ELSE IF FltLt(v, NP_CLIP_LO) THEN NP_CLIP_LO
    ELSE IF FltGt(v, Fin(Q15_MAX - 1, 0)) THEN Fin(Q15_MAX - 1, 0)
    ELSE v
\* np.clip(value, -1.0, 0.999969): NaN is passed through.
NpClip(v) ==
    IF v.cls = "nan" THEN v
    ELSE IF FltLt(v, NP_CLIP_LO) THEN NP_CLIP_LO
    ELSE IF FltGt(v, NP_CLIP_HI) THEN NP_CLIP_HI
    ELSE v

\* np.round: ties to even; NaN and the infinities are kept.
NpRound(x) ==
    [cls |-> x.cls, int |-> IF x.cls = "fin" THEN RoundHalfEven(x) ELSE 0]

\* n reduced to the int16 range, two's complement.
WrapInt16(n) == ((n - Q15_MIN) % TWO_16) + Q15_MIN

\* .astype(np.int16): the value itself when it fits; the C conversion of a
\* NaN, an infinity or an out-of-range value is undefined, and the builds
\* produce the wrapped value, 0 or a saturated value.
NpAstypeInt16(r) ==
    IF r.cls = "fin" /\ r.int >= Q15_MIN /\ r.int <= Q15_MAX THEN {r.int}
    ELSE IF r.cls = "fin" THEN {WrapInt16(r.int), 0, Q15_MIN, Q15_MAX}
    ELSE {0, Q15_MIN, Q15_MAX, -1}

\* int(val) & 0xFFFF
Mask16(n) == n % (MASK_16 + 1)

\* The inputs: every class of non-finite value and the finite values around
\* the anchors -2.0, -1.5, -1.0, -0.5, 0.0, 0.5, 0.999969482421875, 1.5,
\* 2.0, with fractional parts around 0, 1/2 and the fraction of 0.999969.
QAnchors == {-2 * Q15_SCALE, -3 * (Q15_SCALE \div 2), Q15_MIN,
             -(Q15_SCALE \div 2), 0, Q15_SCALE \div 2, Q15_MAX,
             3 * (Q15_SCALE \div 2), 2 * Q15_SCALE}
UAnchors == {0, Micro \div 2, NP_CLIP_HI.u}
FiniteInputs ==
    {Fin(a + d, (b + e) % Micro) :
        a \in QAnchors, d \in -Spread..Spread,
        b \in UAnchors, e \in -Spread..Spread}
Inputs == FiniteInputs \cup {NaN, PosInf, NegInf}

\* ------------------------------------------------------------------------
\* convert_file (convert_params_to_hex.py)
\* ------------------------------------------------------------------------
\* The whitespace-separated tokens a parameter file may hold.
Tokens == {"0.5", "-0.5", "abc", "nan", "inf", "-inf"}

\* float(token): [exc, val]; ValueError when the token is no number.
PyFloat(t) ==
    CASE t = "0.5" -> [exc |-> "none", val |-> Fin(Q15_SCALE \div 2, 0)]
      [] t = "-0.5" -> [exc |-> "none", val |-> Fin(-(Q15_SCALE \div 2), 0)]
      [] t = "nan" -> [exc |-> "none", val |-> NaN]
      [] t = "inf" -> [exc |-> "none", val |-> PosInf]
      [] t = "-inf" -> [exc |-> "none", val |-> NegInf]
      [] OTHER -> [exc |-> "ValueError", val |-> NaN]

\* A line is the sequence of its tokens (line.strip().split()); a file is
\* the sequence of its lines.  FileContents holds every file of at most
\* MaxLines lines and at most MaxTokens tokens in all: a token sequence cut
\* into lines of the lengths lens.
RECURSIVE SumSeq(_)
SumSeq(s) == IF s = <<>> THEN 0 ELSE Head(s) + SumSeq(Tail(s))

RECURSIVE CutLines(_, _)
CutLines(toks, lens) ==
    IF lens = <<>> THEN <<>>
    ELSE <<SubSeq(toks, 1, Head(lens))>>
         \o CutLines(SubSeq(toks, Head(lens) + 1, Len(toks)), Tail(lens))

TokenSeqs == UNION {[1..n -> Tokens] : n \in 0..MaxTokens}
LineLengths == UNION {[1..n -> 0..MaxTokens] : n \in 0..MaxLines}
FileContents ==
    {CutLines(x[1], x[2]) :
        x \in {y \in TokenSeqs \X LineLengths : SumSeq(y[2]) = Len(y[1])}}

\* Faulty variant: the first malformed token ends the line.
RECURSIVE ParseLineStopAtError(_, _)
ParseLineStopAtError(acc, toks) ==
    IF toks = <<>> THEN acc
    ELSE LET r == PyFloat(Head(toks))
         IN  IF r.exc = "none"
             THEN ParseLineStopAtError(
                      [acc EXCEPT !.values = Append(@, r.val)], Tail(toks))
             ELSE [acc EXCEPT !.warned = Append(@, Head(toks))]
\* lines 38-44 for one line: the tokens left to right, each appended to
\* values when float() accepts it and reported otherwise.
RECURSIVE ParseLine(_, _)
ParseLine(acc, toks) ==
    IF toks = <<>> THEN acc
    ELSE LET r == PyFloat(Head(toks))
         IN  ParseLine(
                 IF r.exc = "none"
                 THEN [acc EXCEPT !.values = Append(@, r.val)]
                 ELSE [acc EXCEPT !.warned = Append(@, Head(toks))],
                 Tail(toks))

\* lines 35-44: every line of the file in order.
RECURSIVE ReadValues(_, _)
ReadValues(acc, lines) ==
    IF lines = <<>> THEN acc
    ELSE ReadValues(ParseLine(acc, Head(lines)), Tail(lines))

\* lines 47-50: one hex line per value; an exception of float_to_q15_hex
\* ends the loop with the lines written so far.
RECURSIVE WriteHex(_, _)
WriteHex(out, vals) ==
    IF vals = <<>> THEN [exc |-> "none", lines |-> out]
    ELSE LET r == float_to_q15_hex(Head(vals))
         IN  IF r.exc # "none" THEN [exc |-> r.exc, lines |-> out]
             ELSE WriteHex(Append(out, r.hex), Tail(vals))

\* convert_file(input_path, output_path) on the content of the input file:
\* [exc, values, warned, lines] with lines the content of the output file.
convert_file(content) ==
    LET rd == ReadValues([values |-> <<>>, warned |-> <<>>], content)
        wr == WriteHex(<<>>, rd.values)
    IN  [exc |-> wr.exc, values |-> rd.values, warned |-> rd.warned,
         lines |-> wr.lines]

\* ------------------------------------------------------------------------
\* main (convert_params_to_hex.py)
\* ------------------------------------------------------------------------
NUM_SAMPLE_FILES == 10

SampleFileNames ==
    <<"input_sample_00.txt", "input_sample_01.txt", "input_sample_02.txt",
      "input_sample_03.txt", "input_sample_04.txt", "input_sample_05.txt",
      "input_sample_06.txt", "input_sample_07.txt", "input_sample_08.txt",
      "input_sample_09.txt">>

\* lines 64-71
param_files ==
    <<"Wg2.txt", "bg2.txt", "Wg3.txt", "bg3.txt",
      "Wd2.txt", "bd2.txt", "Wd3.txt", "bd3.txt">>
    \o SubSeq(SampleFileNames, 1, NUM_SAMPLE_FILES)

FileNames == {param_files[i] : i \in 1..Len(param_files)}

Absent == [exists |-> FALSE, lines |-> <<>>]
Present(content) == [exists |-> TRUE, lines |-> content]

\* The contents the files of the parameters directory are drawn from.
DirContents == {<<>>, <<<<"0.5", "-0.5">>>>, <<<<"abc", "0.5">>, <<"nan">>>>}

\* ------------------------------------------------------------------------
\* main (extract_gan_parameters.py)
\* ------------------------------------------------------------------------
\* The calls main makes after a successful load, in order (lines 176-187).
ExtractSteps ==
    <<"display_parameters", "generate_sample_inputs",
      "save_parameters_to_txt", "save_parameters_to_json",
      "save_parameters_to_q15_hex", "save_sample_inputs">>

VARIABLES
    arg,        \* the number handed to both quantisers
    py_pc,      \* position in float_to_q15_hex
    value,      \* float_to_q15_hex: local value
    q15_val,    \* float_to_q15_hex: local q15_val
    py_ret,     \* float_to_q15_hex: [exc, hex]
    np_pc,      \* position in convert_to_fixed_point_q15 / save_q15_hex
    np_value,   \* convert_to_fixed_point_q15: local value
    q15_value,  \* convert_to_fixed_point_q15: q15_value (one element)
    np_line,    \* save_q15_hex: the line written, without its newline
    cf_pc,      \* position of a call of convert_file
    in_file,    \* convert_file: content of input_path
    cf_ret,     \* convert_file: [exc, values, warned, lines]
    fs,         \* parameters directory: file name -> [exists, lines]
    hex_dir,    \* hex directory: file name -> [exists, lines]
    idx,        \* convert_params_to_hex.main: index into param_files
    main_pc,    \* convert_params_to_hex.main: "loop", "done" or "raised"
    converted,  \* names convert_file was called with, in order
    skipped,    \* names reported "not found, skipping", in order
    mat_exists, \* whether trained_simple_gan.mat exists
    ex_pc,      \* extract_gan_parameters.main: "load", "run", "done", "returned"
    ex_calls,   \* the steps extract_gan_parameters.main has called
    ex_error    \* whether it printed the "not found" error

quant_vars == <<arg, py_pc, value, q15_val, py_ret, np_pc, np_value, q15_value, np_line>>
file_vars == <<cf_pc, in_file, cf_ret>>
main_vars == <<fs, hex_dir, idx, main_pc, converted, skipped>>
extract_vars == <<mat_exists, ex_pc, ex_calls, ex_error>>
vars == <<quant_vars, file_vars, main_vars, extract_vars>>


\* The state before any program has run.
QuantIdle(a) ==
    /\ arg = a
    /\ py_pc = "clamp"
    /\ value = a
    /\ q15_val = 0
    /\ py_ret = [exc |-> "none", hex |-> <<>>]
    /\ np_pc = "clip"
    /\ np_value = a
    /\ q15_value = 0
    /\ np_line = <<>>

PyUnchanged == UNCHANGED <<py_pc, value, q15_val, py_ret>>
NpUnchanged == UNCHANGED <<np_pc, np_value, q15_value, np_line>>

\* line 14
PyClamp ==
    /\ py_pc = "clamp"
    /\ value' = Clamp(value)
    /\ py_pc' = "round"
    /\ UNCHANGED <<arg, q15_val, py_ret>>
    /\ NpUnchanged
    /\ UNCHANGED <<file_vars, main_vars, extract_vars>>

\* line 17; an exception of round() leaves the function
PyScaleRound ==
    /\ py_pc = "round"
    /\ LET r == PyRound(Times32768(value))
       IN  IF r.exc = "none"
           THEN /\ q15_val' = r.int
                /\ py_pc' = "guard"
                /\ UNCHANGED py_ret
           ELSE /\ py_ret' = [exc |-> r.exc, hex |-> <<>>]
                /\ py_pc' = "raised"
                /\ UNCHANGED q15_val
    /\ UNCHANGED <<arg, value>>
    /\ NpUnchanged
    /\ UNCHANGED <<file_vars, main_vars, extract_vars>>

\* lines 20-23
PyOverflowGuard ==
    /\ py_pc = "guard"
    /\ q15_val' = OverflowGuard(q15_val)
    /\ py_pc' = "encode"
    /\ UNCHANGED <<arg, value, py_ret>>
    /\ NpUnchanged
    /\ UNCHANGED <<file_vars, main_vars, extract_vars>>

\* lines 26-27
PyTwosComplement ==
    /\ py_pc = "encode"
    /\ q15_val' = TwosComplement(q15_val)
    /\ py_pc' = "format"
    /\ UNCHANGED <<arg, value, py_ret>>
    /\ NpUnchanged
    /\ UNCHANGED <<file_vars, main_vars, extract_vars>>

\* line 29
PyFormat ==
    /\ py_pc = "format"
    /\ py_ret' = [exc |-> "none", hex |-> Format04X(q15_val)]
    /\ py_pc' = "done"
    /\ UNCHANGED <<arg, value, q15_val>>
    /\ NpUnchanged
    /\ UNCHANGED <<file_vars, main_vars, extract_vars>>

\* extract_gan_parameters.py line 84
NpClipStep ==
    /\ np_pc = "clip"
    /\ np_value' = NpClip(np_value)
    /\ np_pc' = "round"
    /\ UNCHANGED <<arg, q15_value, np_line>>
    /\ PyUnchanged
    /\ UNCHANGED <<file_vars, main_vars, extract_vars>>

\* line 86
NpRoundCast ==
    /\ np_pc = "round"
    /\ \E n \in NpAstypeInt16(NpRound(Times32768(np_value))) : q15_value' = n
    /\ np_pc' = "write"
    /\ UNCHANGED <<arg, np_value, np_line>>
    /\ PyUnchanged
    /\ UNCHANGED <<file_vars, main_vars, extract_vars>>

\* lines 99-100
NpWriteHex ==
    /\ np_pc = "write"
    /\ np_line' = Format04X(Mask16(q15_value))
    /\ np_pc' = "done"
    /\ UNCHANGED <<arg, np_value, q15_value>>
    /\ PyUnchanged
    /\ UNCHANGED <<file_vars, main_vars, extract_vars>>

QuantNext ==
    \/ PyClamp
    \/ PyScaleRound
    \/ PyOverflowGuard
    \/ PyTwosComplement
    \/ PyFormat
    \/ NpClipStep
    \/ NpRoundCast
    \/ NpWriteHex


FileIdle ==
    /\ cf_pc = "idle"
    /\ in_file = <<>>
    /\ cf_ret = [exc |-> "none", values |-> <<>>, warned |-> <<>>, lines |-> <<>>]

MainIdle ==
    /\ fs = [f \in FileNames |-> Absent]
    /\ hex_dir = [f \in FileNames |-> Absent]
    /\ idx = 1
    /\ main_pc = "idle"
    /\ converted = <<>>
    /\ skipped = <<>>

ExtractIdle ==
    /\ mat_exists = FALSE
    /\ ex_pc = "idle"
    /\ ex_calls = <<>>
    /\ ex_error = FALSE

\* ------------------------------------------------------------------------
\* The quantisers on one number
\* ------------------------------------------------------------------------
QuantInit ==
    /\ \E a \in Inputs : QuantIdle(a)
    /\ FileIdle
    /\ MainIdle
    /\ ExtractIdle

SpecQuant == QuantInit /\ [][QuantNext]_vars

\* ------------------------------------------------------------------------
\* convert_file on one file
\* ------------------------------------------------------------------------
FileInit ==
    /\ QuantIdle(Fin(0, 0))
    /\ cf_pc = "call"
    /\ in_file \in FileContents
    /\ cf_ret = [exc |-> "none", values |-> <<>>, warned |-> <<>>, lines |-> <<>>]
    /\ MainIdle
    /\ ExtractIdle

\* lines 31-52
ConvertFile ==
    /\ cf_pc = "call"
    /\ cf_ret' = convert_file(in_file)
    /\ cf_pc' = IF cf_ret'.exc = "none" THEN "done" ELSE "raised"
    /\ UNCHANGED <<in_file, quant_vars, main_vars, extract_vars>>

FileNext == ConvertFile

SpecFile == FileInit /\ [][FileNext]_vars

\* ------------------------------------------------------------------------
\* The two main functions
\* ------------------------------------------------------------------------
MissingSets == {m \in SUBSET FileNames : Cardinality(m) <= MaxMissing}

MainInit ==
    /\ QuantIdle(Fin(0, 0))
    /\ FileIdle
    /\ \E m \in MissingSets, c \in DirContents :
           fs = [f \in FileNames |-> IF f \in m THEN Absent ELSE Present(c)]
    /\ hex_dir = [f \in FileNames |-> Absent]
    /\ idx = 1
    /\ main_pc = "loop"
    /\ converted = <<>>
    /\ skipped = <<>>
    /\ mat_exists \in BOOLEAN
    /\ ex_pc = "load"
    /\ ex_calls = <<>>
    /\ ex_error = FALSE

\* Faulty variant: a missing file ends the loop.
MainIterationStopAtMissing ==
    /\ main_pc = "loop"
    /\ idx <= Len(param_files)
    /\ LET filename == param_files[idx]
       IN  IF fs[filename].exists
           THEN LET r == convert_file(fs[filename].lines)
                IN  /\ converted' = Append(converted, filename)
                    /\ hex_dir' = [hex_dir EXCEPT ![filename] = Present(r.lines)]
                    /\ IF r.exc = "none"
                       THEN /\ idx' = idx + 1
                            /\ main_pc' = IF idx = Len(param_files)
                                          THEN "done" ELSE "loop"
                       ELSE /\ idx' = idx
                            /\ main_pc' = "raised"
                    /\ UNCHANGED skipped
           ELSE /\ skipped' = Append(skipped, filename)
                /\ idx' = idx + 1
                /\ main_pc' = "done"
                /\ UNCHANGED <<converted, hex_dir>>
    /\ UNCHANGED <<fs, quant_vars, file_vars, extract_vars>>

\* convert_params_to_hex.py lines 73-80, one iteration
MainIteration ==
    /\ main_pc = "loop"
    /\ idx <= Len(param_files)
    /\ LET filename == param_files[idx]
       IN  IF fs[filename].exists
           THEN LET r == convert_file(fs[filename].lines)
                IN  /\ converted' = Append(converted, filename)
                    /\ hex_dir' = [hex_dir EXCEPT ![filename] = Present(r.lines)]
                    /\ IF r.exc = "none"
                       THEN /\ idx' = idx + 1
                            /\ main_pc' = IF idx = Len(param_files)
                                          THEN "done" ELSE "loop"
                       ELSE /\ idx' = idx
                            /\ main_pc' = "raised"
                    /\ UNCHANGED skipped
           ELSE /\ skipped' = Append(skipped, filename)
                /\ idx' = idx + 1
                /\ main_pc' = IF idx = Len(param_files) THEN "done" ELSE "loop"
                /\ UNCHANGED <<converted, hex_dir>>
    /\ UNCHANGED <<fs, quant_vars, file_vars, extract_vars>>

\* extract_gan_parameters.py lines 166-173
ExtractLoad ==
    /\ ex_pc = "load"
    /\ IF mat_exists
       THEN /\ ex_pc' = "run"
            /\ UNCHANGED ex_error
       ELSE /\ ex_error' = TRUE
            /\ ex_pc' = "returned"
    /\ UNCHANGED <<mat_exists, ex_calls, quant_vars, file_vars, main_vars>>

\* lines 176-187, one call
ExtractStep ==
    /\ ex_pc = "run"
    /\ ex_calls' = Append(ex_calls, ExtractSteps[Len(ex_calls) + 1])
    /\ ex_pc' = IF Len(ex_calls') = Len(ExtractSteps) THEN "done" ELSE "run"
    /\ UNCHANGED <<mat_exists, ex_error, quant_vars, file_vars, main_vars>>

MainNext ==
    \/ MainIteration
    \/ ExtractLoad
    \/ ExtractStep

SpecMain == MainInit /\ [][MainNext]_vars

\* ========================================================================
\* Properties
\* ========================================================================
HexCharSet == {HexChars[i] : i \in 1..Len(HexChars)}
IsHexWord(s) == Len(s) = 4 /\ \A i \in 1..Len(s) : s[i] \in HexCharSet

\* The value of a string of hexadecimal digits.
RECURSIVE HexValue(_)
HexValue(s) ==
    IF s = <<>> THEN 0
    ELSE 16 * HexValue(SubSeq(s, 1, Len(s) - 1))
         + (CHOOSE d \in 0..15 : HexChars[d + 1] = s[Len(s)])

\* A 16-bit word read as a signed integer.
AsSigned16(w) == IF w >= 32768 THEN w - 65536 ELSE w

Returned(hex) == [exc |-> "none", hex |-> hex]
Hex7FFF == <<"7", "F", "F", "F">>
Hex8000 == <<"8", "0", "0", "0">>

\* C1: whatever the input, float_to_q15_hex returns (raises nothing), the
\* word it formats is an unsigned integer in [0, 65535], and the string is
\* exactly 4 characters, each one of 0-9 A-F.
C1_FourHexDigits ==
    /\ py_pc # "raised"
    /\ py_pc \in {"format", "done"} => q15_val \in 0..65535
    /\ py_pc = "done" => py_ret.exc = "none" /\ IsHexWord(py_ret.hex)

C1_Witness ==
    /\ py_pc = "done"
    /\ FltLt(arg, PY_CLAMP_LO)
    /\ py_ret.hex = Hex8000

\* C2: an input above 0.999969482421875 gives the output of
\* 0.999969482421875 ("7FFF"), an input below -1.0 the output of -1.0
\* ("8000"), and no error is raised.
C2_Saturates ==
    /\ FltGt(arg, PY_CLAMP_HI) \/ FltLt(arg, PY_CLAMP_LO) => py_pc # "raised"
    /\ py_pc = "done" /\ FltGt(arg, PY_CLAMP_HI) =>
           py_ret = Returned(Hex7FFF) /\ py_ret = float_to_q15_hex(PY_CLAMP_HI)
    /\ py_pc = "done" /\ FltLt(arg, PY_CLAMP_LO) =>
           py_ret = Returned(Hex8000) /\ py_ret = float_to_q15_hex(PY_CLAMP_LO)

C2_Witness ==
    /\ py_pc = "done"
    /\ arg = Fin(3 * (Q15_SCALE \div 2), 0)
    /\ py_ret.hex = Hex7FFF

\* C3: 0.0 -> "0000", 0.999969482421875 -> "7FFF", -1.0 -> "8000",
\* 0.5 -> "4000", -0.5 -> "C000"; and the encoding step turns a negative
\* signed result q into q + 65536 and leaves a non-negative one as it is.
C3_AnchorTable ==
    py_pc = "done" =>
        /\ arg = Fin(0, 0) => py_ret = Returned(<<"0", "0", "0", "0">>)
        /\ arg = Fin(32767, 0) => py_ret = Returned(Hex7FFF)
        /\ arg = Fin(-32768, 0) => py_ret = Returned(Hex8000)
        /\ arg = Fin(16384, 0) => py_ret = Returned(<<"4", "0", "0", "0">>)
        /\ arg = Fin(-16384, 0) => py_ret = Returned(<<"C", "0", "0", "0">>)

C3_Anchors ==
    /\ []C3_AnchorTable
    /\ [][py_pc = "encode" /\ py_pc' = "format" =>
            q15_val' = IF q15_val < 0 THEN q15_val + 65536 ELSE q15_val]_vars

C3_Witness ==
    /\ py_pc = "done"
    /\ arg = Fin(-16384, 0)
    /\ py_ret.hex = <<"C", "0", "0", "0">>

\* The input clamped to [-1.0, 0.999969482421875], for an input that is
\* not NaN.
ClampedArg ==
    IF arg.cls = "inf" \/ (arg.cls = "fin" /\ arg.q >= 32767) THEN Fin(32767, 0)
    ELSE IF arg.cls = "ninf" \/ (arg.cls = "fin" /\ arg.q < -32768)
    THEN Fin(-32768, 0)
    ELSE arg

RECURSIVE Flatten(_)
Flatten(lines) ==
    IF lines = <<>> THEN <<>> ELSE Head(lines) \o Flatten(Tail(lines))

NumberTokens == {"0.5", "-0.5", "nan", "inf", "-inf"}
IsNumberToken(t) == t \in NumberTokens
IsMalformedToken(t) == t \notin NumberTokens

\* C5: convert_file returns; the output file holds one line per token that
\* parses as a number, in the order of the tokens, each line
\* float_to_q15_hex of the token; every token that does not parse is
\* reported and nothing else; so without malformed tokens the output has as
\* many lines as the input has tokens.
C5_OneLinePerNumber ==
    /\ cf_pc # "raised"
    /\ cf_pc = "done" =>
        LET toks == Flatten(in_file)
            good == SelectSeq(toks, IsNumberToken)
        IN  /\ Len(cf_ret.lines) = Len(good)
            /\ \A i \in 1..Len(good) :
                   cf_ret.lines[i] = float_to_q15_hex(PyFloat(good[i]).val).hex
            /\ cf_ret.warned = SelectSeq(toks, IsMalformedToken)
            /\ (cf_ret.warned = <<>> => Len(cf_ret.lines) = Len(toks))

C5_Witness ==
    /\ cf_pc = "done"
    /\ in_file = <<<<"abc", "0.5">>, <<"-0.5">>>>
    /\ cf_ret.lines = <<<<"4", "0", "0", "0">>, <<"C", "0", "0", "0">>>>
    /\ cf_ret.warned = <<"abc">>

\* C6: convert_params_to_hex.main has 18 file names; of those it has dealt
\* with, it called convert_file on exactly the ones that exist, in order,
\* and reported exactly the missing ones; a missing file does not stop the
\* loop, which ends having dealt with all 18.  extract_gan_parameters.main
\* with the .mat file missing reports the error and returns having called
\* no display, generation or save step.
Exists(f) == fs[f].exists
Missing(f) == ~fs[f].exists

C6_MissingFiles ==
    /\ Len(param_files) = 18
    /\ main_pc \in {"loop", "done"}
    /\ LET dealt == SubSeq(param_files, 1, idx - 1)
       IN  /\ converted = SelectSeq(dealt, Exists)
           /\ skipped = SelectSeq(dealt, Missing)
           /\ \A f \in FileNames :
                  hex_dir[f].exists <=>
                      (fs[f].exists /\ \E i \in 1..(idx - 1) : param_files[i] = f)
    /\ main_pc = "done" <=> idx = 19
    /\ ~mat_exists => ex_calls = <<>> /\ ex_pc \in {"load", "returned"}
    /\ ex_pc = "returned" <=> ex_error
    /\ ex_error => ~mat_exists

C6_Witness ==
    /\ main_pc = "done"
    /\ skipped = <<"Wg2.txt", "input_sample_03.txt">>
    /\ Len(converted) = 16
    /\ hex_dir["input_sample_09.txt"].exists
    /\ ex_pc = "returned"
    /\ ex_calls = <<>>

\* C7: the integer the overflow guard receives is already in
\* [-32768, 32767], so the guard leaves it as it is.
C7_GuardIdle ==
    /\ py_pc = "guard" => q15_val >= -32768 /\ q15_val <= 32767
    /\ py_pc = "guard" => OverflowGuard(q15_val) = q15_val

C7_Witness ==
    /\ py_pc = "guard"
    /\ FltGt(arg, PY_CLAMP_HI)
    /\ q15_val = 32767

\* C8: for a finite input the line written by the numpy path equals the
\* string float_to_q15_hex returns.
C8_PathsAgree ==
    py_pc = "done" /\ np_pc = "done" /\ arg.cls = "fin" =>
        py_ret.exc = "none" /\ np_line = py_ret.hex

\* an input between 0.999969 and 0.999969482421875
C8_Witness ==
    /\ py_pc = "done"
    /\ np_pc = "done"
    /\ arg = Fin(32766, 984193)
    /\ np_value # value
    /\ np_line = Hex7FFF
    /\ py_ret.hex = Hex7FFF

\* C9: with c the clamped input times 32768, c = k + 1/2 is rounded to the
\* even one of k and k + 1, and any other c to the nearest integer;
\* 0.5/32768 -> "0000", 1.5/32768 -> "0002", -0.5/32768 -> "0000",
\* -1.5/32768 -> "FFFE".
C9_TiesToEven ==
    /\ py_pc = "guard" =>
        /\ 2 * value.u = Micro =>
               q15_val \in {value.q, value.q + 1} /\ q15_val % 2 = 0
        /\ 2 * value.u < Micro => q15_val = value.q
        /\ 2 * value.u > Micro => q15_val = value.q + 1
    /\ py_pc = "done" =>
        /\ arg = Fin(0, Micro \div 2) => py_ret.hex = <<"0", "0", "0", "0">>
        /\ arg = Fin(1, Micro \div 2) => py_ret.hex = <<"0", "0", "0", "2">>
        /\ arg = Fin(-1, Micro \div 2) => py_ret.hex = <<"0", "0", "0", "0">>
        /\ arg = Fin(-2, Micro \div 2) => py_ret.hex = <<"F", "F", "F", "E">>

C9_Witness ==
    /\ py_pc = "done"
    /\ arg = Fin(-2, Micro \div 2)
    /\ py_ret.hex = <<"F", "F", "F", "E">>

\* C10: float_to_q15_hex raises nothing on a non-finite value and returns
\* "7FFF" for +infinity, "8000" for -infinity and "8000" for NaN; the
\* tokens "nan", "inf" and "-inf" of a file are parsed as numbers, not
\* reported, and each gives that output line.
NonFiniteHex(t) ==
    CASE t = "nan" -> Hex8000
      [] t = "inf" -> Hex7FFF
      [] t = "-inf" -> Hex8000
      [] OTHER -> <<>>

C10_NonFinite ==
    /\ cf_pc # "raised"
    /\ cf_pc = "done" =>
        LET good == SelectSeq(Flatten(in_file), IsNumberToken)
        IN  /\ Len(cf_ret.lines) = Len(good)
            /\ Len(cf_ret.values) = Len(good)
            /\ \A i \in 1..Len(good) :
                   good[i] \in {"nan", "inf", "-inf"} =>
                       /\ cf_ret.values[i].cls # "fin"
                       /\ cf_ret.lines[i] = NonFiniteHex(good[i])
            /\ \A i \in 1..Len(cf_ret.warned) :
                   cf_ret.warned[i] \notin {"nan", "inf", "-inf"}

C10_Witness ==
    /\ cf_pc = "done"
    /\ in_file = <<<<"nan", "inf">>, <<"-inf">>>>
    /\ cf_ret.lines = <<Hex8000, Hex7FFF, Hex8000>>
    /\ cf_ret.warned = <<>>

====
